---- MODULE Spec2Model ----
(***************************************************************************)
(* A model of pwait (src/pwait.c): a controller that attaches with ptrace  *)
(* to an unrelated process, waits for its PTRACE_EVENT_EXIT stop and       *)
(* prints the exit status it reads with PTRACE_GETEVENTMSG.                *)
(*                                                                         *)
(* The controller is modelled statement by statement (pc names the next    *)
(* statement of main).  The Linux kernel it talks to (ptrace, waitpid,     *)
(* signal delivery) and the traced process are the environment: they are   *)
(* modelled at the call sites of the source, with the semantics of         *)
(* ptrace(2), waitpid(2) and sigaction(2).                                 *)
(***************************************************************************)
EXTENDS Integers, Sequences, FiniteSets, TLC

(***************************************************************************)
(* Bounds of the model.                                                    *)
(***************************************************************************)
\* SIGINT/SIGTERM deliveries to the controller in one run
MaxSignals == 2
\* wait results handed to a wait function on its own
MaxEvents == 3

(***************************************************************************)
(* Constants of the program and of the platform headers it includes.      *)
(***************************************************************************)
SIGTRAP == 5
SIGKILL == 9
SIGUSR1 == 10
SIGSTOP == 19
PTRACE_EVENT_EXIT == 6
CLD_EXITED == 1
CLD_TRAPPED == 4

\* PTRACE_EXIT_SIGINFO_STATUS with the two bytes exchanged
PTRACE_EXIT_SIGINFO_STATUS_swapped == PTRACE_EVENT_EXIT + (SIGTRAP * 256)

\* #define PTRACE_EXIT_SIGINFO_STATUS (SIGTRAP | (PTRACE_EVENT_EXIT << 8));
\* the two operands have no bit in common, so | is +.
PTRACE_EXIT_SIGINFO_STATUS == SIGTRAP + (PTRACE_EVENT_EXIT * 256)

\* the two signals main installs the handler for
TermSignals == {"SIGTERM", "SIGINT"}

\* exit codes the target passes to exit()
ExitCodes == {0, 42, 255}

\* signals whose delivery to the traced target is reported to the tracer
StopSignals == {SIGTRAP, SIGUSR1}

\* A long or unsigned long (64 bits) is four 16-bit limbs, lowest first.
Long(n) == <<n % 65536, n \div 65536, 0, 0>>
MinusOne == <<65535, 65535, 65535, 65535>>
TwoTo32Plus1 == <<1, 0, 1, 0>>

\* argv: argc < 2, a text strtol finds no digits in, or a number
Args ==
    {[kind |-> "missing", val |-> Long(0)], [kind |-> "text", val |-> Long(0)]}
    \cup {[kind |-> "num", val |-> v] :
             v \in {MinusOne, Long(0), Long(1), Long(2), TwoTo32Plus1}}

VARIABLES
    arg,              \* argv[1]
    seize,            \* build configuration: PTRACE_SEIZE is defined
    pc,               \* next statement of main
    pid,              \* static pid_t pid
    capResult,        \* what prepare_capabilities returned
    ptrace_return,    \* main's local: what the attach call returned
    effective,        \* CAP_SYS_PTRACE is in the controller's effective set
    permitted,        \* CAP_SYS_PTRACE is in the controller's permitted set
    disp,             \* disposition of SIGTERM and SIGINT
    disp0,            \* their disposition when the program started
    oldsiga,          \* oldsiga_term, oldsiga_int
    sa_restart,       \* SA_RESTART bit of the uninitialised siga.sa_flags
    sa_resethand,     \* its SA_RESETHAND bit
    tstate,           \* the process named by the argument
    traced,           \* it is traced by the controller
    otherTracer,      \* it is traced by somebody else
    pending,          \* wait status queued for the controller, -1: none
    eventmsg,         \* the kernel's ptrace_message of the target
    eintr,            \* the blocked waitpid was interrupted
    status,           \* waitpid_return_status
    tracee_exit_code, \* main's local
    out,              \* lines written to standard output
    exitCode,         \* main's return value, -1 while running
    trace,            \* library and system calls issued, in order
    nsig,             \* signals delivered so far
    handlerRuns,      \* times the detach handler ran
    intrBlocked,      \* a handled signal arrived while blocked in waitpid
    exited_k,         \* k of the target's exit(k), -1: it did not call exit
    sigkilled,        \* the target was killed by SIGKILL
    capFails,         \* the libcap calls that failed for prepare_capabilities
    unitOf,           \* what runs: "main", or one function on its own
    events,           \* the wait results a wait function is handed, in order
    wpid_run,         \* wait_using_waitpid on events: result, wait calls made
    wid_run           \* wait_using_waitid on events: result, wait calls made

config == <<arg, seize, disp0, sa_restart, sa_resethand>>
unit == <<unitOf, events, wpid_run, wid_run>>
ctl == <<config, unit, pc, pid, capResult, ptrace_return, effective, permitted, disp,
         oldsiga, status, tracee_exit_code, out, exitCode>>
env == <<tstate, traced, otherTracer, pending, eventmsg, eintr>>
hist == <<trace, nsig, handlerRuns, intrBlocked, exited_k, sigkilled, capFails>>
vars == <<ctl, env, hist>>

(***************************************************************************)
(* Conversions of C                                                        *)
(***************************************************************************)
\* long or unsigned long -> int / pid_t: the low 32 bits, two's complement
ToInt32(v) ==
    IF v[2] >= 32768 THEN ((v[2] - 65536) * 65536) + v[1]
    ELSE (v[2] * 65536) + v[1]

\* WIFSTOPPED(status): the low byte is 0x7f
WIFSTOPPED(s) == (s % 256) = 127

\* status >> 8 of a non-negative int
Shr8(s) == s \div 256

\* strtol(argv[1], &endptr, 0): value and whether endptr moved
strtol(a) ==
    IF a.kind = "num" THEN [value |-> a.val, moved |-> TRUE]
    ELSE [value |-> Long(0), moved |-> FALSE]

(***************************************************************************)
(* prepare_capabilities                                                    *)
(***************************************************************************)
\* the libcap calls of prepare_capabilities that can fail
CapCalls == {"cap_get_proc", "cap_get_flag_effective", "cap_get_flag_permitted",
             "cap_set_flag", "cap_set_proc", "cap_get_flag_recheck", "cap_free"}

\* the failures a call of prepare_capabilities can meet: it returns at the
\* first failing call, after a cap_free that may fail too
CapFailures == {f \in SUBSET CapCalls : Cardinality(f \ {"cap_free"}) <= 1}

\* cap_free_safe: the call it logs and the status it returns (-1 on failure)
cap_free_safe(fails) ==
    [calls |-> <<"cap_free">>,
     status |-> IF "cap_free" \in fails THEN -1 ELSE 0]

\* prepare_capabilities going on to the permitted set when the query of
\* the effective set fails
prepare_capabilities_goon(supported, eff, perm, fails) ==
    LET free == cap_free_safe(fails).calls
        c1 == <<"CAP_IS_SUPPORTED">>
        c2 == c1 \o <<"cap_get_proc">>
        c3 == c2 \o <<"cap_get_flag_effective">>
        c4 == c3 \o <<"cap_get_flag_permitted">>
        c5 == c4 \o <<"cap_set_flag">>
        c6 == c5 \o <<"cap_set_proc">>
        c7 == c6 \o <<"cap_get_flag_recheck">>
        \* the struct's effective flag after cap_set_flag(..., CAP_SET)
        cap_sys_ptrace_status == TRUE
    IN  IF ~supported THEN
            [ret |-> FALSE, calls |-> c1, raised |-> FALSE]
        ELSE IF "cap_get_proc" \in fails THEN
            [ret |-> FALSE, calls |-> c2, raised |-> FALSE]
        ELSE IF eff /\ "cap_get_flag_effective" \notin fails THEN
            [ret |-> TRUE, calls |-> c3, raised |-> FALSE]
        ELSE IF "cap_get_flag_permitted" \in fails THEN
            [ret |-> FALSE, calls |-> c4 \o free, raised |-> FALSE]
        ELSE IF ~perm THEN
            [ret |-> FALSE, calls |-> c4, raised |-> FALSE]
        ELSE IF "cap_set_flag" \in fails THEN
            [ret |-> FALSE, calls |-> c5 \o free, raised |-> FALSE]
        ELSE IF "cap_set_proc" \in fails THEN
            [ret |-> FALSE, calls |-> c6 \o free, raised |-> FALSE]
        ELSE IF "cap_get_flag_recheck" \in fails THEN
            [ret |-> FALSE, calls |-> c7 \o free, raised |-> TRUE]
        ELSE IF cap_free_safe(fails).status = -1 THEN
            [ret |-> FALSE, calls |-> c7 \o free, raised |-> TRUE]
        ELSE
            [ret |-> cap_sys_ptrace_status, calls |-> c7 \o free,
             raised |-> TRUE]

\* prepare_capabilities on a kernel that supports CAP_SYS_PTRACE or not,
\* for a process whose effective/permitted sets hold it or not, where the
\* calls in fails fail: the value returned, the calls made in order, and
\* whether cap_set_proc changed the process.
prepare_capabilities(supported, eff, perm, fails) ==
    LET free == cap_free_safe(fails).calls
        c1 == <<"CAP_IS_SUPPORTED">>
        c2 == c1 \o <<"cap_get_proc">>
        c3 == c2 \o <<"cap_get_flag_effective">>
        c4 == c3 \o <<"cap_get_flag_permitted">>
        c5 == c4 \o <<"cap_set_flag">>
        c6 == c5 \o <<"cap_set_proc">>
        c7 == c6 \o <<"cap_get_flag_recheck">>
        \* the struct's effective flag after cap_set_flag(..., CAP_SET)
        cap_sys_ptrace_status == TRUE
    IN  IF ~supported THEN
            [ret |-> FALSE, calls |-> c1, raised |-> FALSE]
        ELSE IF "cap_get_proc" \in fails THEN
            [ret |-> FALSE, calls |-> c2, raised |-> FALSE]
        ELSE IF "cap_get_flag_effective" \in fails THEN
            [ret |-> FALSE, calls |-> c3 \o free, raised |-> FALSE]
        ELSE IF eff THEN
            [ret |-> TRUE, calls |-> c3, raised |-> FALSE]
        ELSE IF "cap_get_flag_permitted" \in fails THEN
            [ret |-> FALSE, calls |-> c4 \o free, raised |-> FALSE]
        ELSE IF ~perm THEN
            [ret |-> FALSE, calls |-> c4, raised |-> FALSE]
        ELSE IF "cap_set_flag" \in fails THEN
            [ret |-> FALSE, calls |-> c5 \o free, raised |-> FALSE]
        ELSE IF "cap_set_proc" \in fails THEN
            [ret |-> FALSE, calls |-> c6 \o free, raised |-> FALSE]
        ELSE IF "cap_get_flag_recheck" \in fails THEN
            [ret |-> FALSE, calls |-> c7 \o free, raised |-> TRUE]
        ELSE IF cap_free_safe(fails).status = -1 THEN
            [ret |-> FALSE, calls |-> c7 \o free, raised |-> TRUE]
        ELSE
            [ret |-> cap_sys_ptrace_status, calls |-> c7 \o free,
             raised |-> TRUE]

(***************************************************************************)
(* The wait loop and the extraction                                        *)
(***************************************************************************)
\* wait_using_waitpid taking any stop of the target for its exit
wait_using_waitpid_anystop(returned_pid, waitpid_return_status, p) ==
    IF returned_pid = -1 THEN "FALSE"
    ELSE IF returned_pid # p THEN "FALSE"
    ELSE IF WIFSTOPPED(waitpid_return_status) THEN "TRUE"
    ELSE "loop"

\* one iteration of the do-while of wait_using_waitpid on what waitpid
\* returned: "FALSE" and "TRUE" are the function's return values, "loop"
\* is another iteration
wait_using_waitpid(returned_pid, waitpid_return_status, p) ==
    IF returned_pid = -1 THEN "FALSE"
    ELSE IF returned_pid # p THEN "FALSE"
    ELSE IF WIFSTOPPED(waitpid_return_status)
            /\ Shr8(waitpid_return_status) = PTRACE_EXIT_SIGINFO_STATUS
         THEN "TRUE"
    ELSE "loop"

\* wait_using_waitid giving up on a result that is not the exit event
wait_using_waitid_noloop(ret, si_pid, si_code, si_status, p) ==
    IF ret # 0 THEN "FALSE"
    ELSE IF si_pid = 0 THEN "FALSE"
    ELSE IF si_code = CLD_TRAPPED /\ si_status = PTRACE_EXIT_SIGINFO_STATUS
         THEN "TRUE"
    ELSE "FALSE"

\* one iteration of the do-while of wait_using_waitid on what waitid
\* returned (ret) and left in siginfo; si_pid was zeroed before the call
wait_using_waitid(ret, si_pid, si_code, si_status, p) ==
    IF ret # 0 THEN "FALSE"
    ELSE IF si_pid = 0 THEN "FALSE"
    ELSE IF si_code = CLD_TRAPPED /\ si_status = PTRACE_EXIT_SIGINFO_STATUS
         THEN "TRUE"
    ELSE "loop"

\* get_tracee_exit_status: -1 when the query failed, (int) of the message
\* otherwise
get_tracee_exit_status(ok, tracee_exit_status) ==
    IF ~ok THEN -1 ELSE ToInt32(tracee_exit_status)

(***************************************************************************)
(* The kernel                                                              *)
(***************************************************************************)
\* wait status of a stop by signal sig
StopStatus(sig) == (sig * 256) + 127

\* what the kernel reports for the PTRACE_EVENT_EXIT stop (ptrace(2)): the
\* stop code (PTRACE_EVENT_EXIT << 8) | SIGTRAP, which is waitid's
\* si_status, and the wait status (code << 8) | 0x7f of waitpid
ExitEventCode == (PTRACE_EVENT_EXIT * 256) + SIGTRAP
ExitEventStatus == (ExitEventCode * 256) + 127

\* wait status of a process that called exit(k): exit(2) hands the kernel's
\* do_exit (k & 0xff) << 8, and do_exit makes that value the message of
\* PTRACE_EVENT_EXIT (ptrace_event(PTRACE_EVENT_EXIT, code)), so this is
\* also what PTRACE_GETEVENTMSG stores for the exit event
ExitedStatus(k) == (k % 256) * 256

\* a tracee in a ptrace-stop: the only state in which PTRACE_DETACH and
\* PTRACE_GETEVENTMSG do not fail with ESRCH (ptrace(2): every request but
\* ATTACH, SEIZE, INTERRUPT and KILL needs a stopped tracee)
InPtraceStop == traced /\ tstate \in {"stopped", "exitstop"}

\* the target once its tracer let go of it (PTRACE_DETACH or the tracer's
\* exit): a stopped one runs again, an exiting one finishes exiting
Resume(ts) ==
    IF ts = "stopped" THEN "running"
    ELSE IF ts \in {"exitstop", "zombie"} THEN "gone"
    ELSE ts

(***************************************************************************)
(* The initial state: the program was started with some argument, in some  *)
(* build, with some inherited signal dispositions and privileges, and the  *)
(* process the argument names exists or not.                               *)
(***************************************************************************)
\* nothing runs on its own
UnitIdle ==
    /\ events = <<>>
    /\ wpid_run = [ret |-> "running", calls |-> 0]
    /\ wid_run = [ret |-> "running", calls |-> 0]

Init ==
    /\ unitOf = "main"
    /\ UnitIdle
    /\ arg \in Args
    /\ seize \in BOOLEAN
    /\ pc = "argc"
    /\ pid = 0
    /\ capResult = "notrun"
    /\ ptrace_return = 0
    /\ effective \in BOOLEAN
    /\ permitted \in BOOLEAN
    /\ effective => permitted
    /\ disp \in [TermSignals -> {"SIG_DFL", "SIG_IGN"}]
    /\ disp0 = disp
    /\ oldsiga = [s \in TermSignals |-> "unset"]
    /\ sa_restart \in BOOLEAN
    /\ sa_resethand \in BOOLEAN
    /\ tstate \in {"running", "gone"}
    /\ traced = FALSE
    /\ otherTracer \in BOOLEAN
    /\ otherTracer => tstate = "running"
    /\ pending = -1
    /\ eventmsg = Long(0)
    /\ eintr = FALSE
    /\ status = 0
    /\ tracee_exit_code = 0
    /\ out = <<>>
    /\ exitCode = -1
    /\ trace = <<>>
    /\ nsig = 0
    /\ handlerRuns = 0
    /\ intrBlocked = FALSE
    /\ exited_k = -1
    /\ sigkilled = FALSE
    /\ capFails = {}

Running == pc \notin {"done", "killed"}

\* the controller ends (return from main, or death by a signal): the kernel
\* detaches whatever it traced
ReleaseTracee ==
    /\ traced' = FALSE
    /\ tstate' = (IF traced THEN Resume(tstate) ELSE tstate)
    /\ pending' = -1
    /\ eintr' = FALSE
    /\ UNCHANGED <<otherTracer, eventmsg>>

\* return code; from main
Return(code) ==
    /\ pc' = "done"
    /\ exitCode' = code
    /\ ReleaseTracee

\* the statement at pc continues at next
Goto(next) ==
    /\ pc' = next
    /\ UNCHANGED <<exitCode, env>>

(***************************************************************************)
(* main, statement by statement                                            *)
(***************************************************************************)
\* argc < 2
ArgMissing(a) == a.kind = "missing"

\* if (argc < 2) { usage(argv[0]); return 2; }
ArgcCheck ==
    /\ pc = "argc"
    /\ IF ArgMissing(arg)
       THEN Return(2) /\ trace' = Append(trace, "usage")
       ELSE Goto("caps") /\ trace' = trace
    /\ UNCHANGED <<config, unit, pid, capResult, ptrace_return, effective, permitted,
                   disp, oldsiga, status, tracee_exit_code, out>>
    /\ UNCHANGED <<nsig, handlerRuns, intrBlocked, exited_k, sigkilled, capFails>>

\* PrepareCapabilities without the return on failure
PrepareCapabilities_ignore ==
    /\ pc = "caps"
    /\ \E supported \in BOOLEAN, fails \in CapFailures :
         LET r == prepare_capabilities(supported, effective, permitted, fails)
         IN  /\ capFails' = fails
             /\ trace' = trace \o r.calls
             /\ effective' = (effective \/ r.raised)
             /\ capResult' = (IF r.ret THEN "true" ELSE "false")
             /\ Goto("parse")
    /\ UNCHANGED <<config, unit, pid, ptrace_return, permitted, disp, oldsiga,
                   status, tracee_exit_code, out>>
    /\ UNCHANGED <<nsig, handlerRuns, intrBlocked, exited_k, sigkilled>>

\* if (!prepare_capabilities()) { return 1; }
PrepareCapabilities ==
    /\ pc = "caps"
    /\ \E supported \in BOOLEAN, fails \in CapFailures :
         LET r == prepare_capabilities(supported, effective, permitted, fails)
         IN  /\ capFails' = fails
             /\ trace' = trace \o r.calls
             /\ effective' = (effective \/ r.raised)
             /\ capResult' = (IF r.ret THEN "true" ELSE "false")
             /\ IF ~r.ret THEN Return(1) ELSE Goto("parse")
    /\ UNCHANGED <<config, unit, pid, ptrace_return, permitted, disp, oldsiga,
                   status, tracee_exit_code, out>>
    /\ UNCHANGED <<nsig, handlerRuns, intrBlocked, exited_k, sigkilled>>

\* ValidPid with the bound off by one
ValidPid_offbyone(p) == ~(p < 0)

\* !(pid < 1)
ValidPid(p) == ~(p < 1)

\* ParseArgument returning the usage error's code for a bad argument
ParseArgument_usage ==
    /\ pc = "parse"
    /\ LET r == strtol(arg)
           p == ToInt32(r.value)
       IN  /\ pid' = p
           /\ trace' = Append(trace, "strtol")
           /\ IF ~r.moved THEN Return(2)
              ELSE IF ~ValidPid(p) THEN Return(2)
              ELSE Goto("install_term")
    /\ UNCHANGED <<config, unit, capResult, ptrace_return, effective, permitted,
                   disp, oldsiga, status, tracee_exit_code, out>>
    /\ UNCHANGED <<nsig, handlerRuns, intrBlocked, exited_k, sigkilled, capFails>>

\* pid = strtol(argv[1], &endptr, 0); the two checks of the result
ParseArgument ==
    /\ pc = "parse"
    /\ LET r == strtol(arg)
           p == ToInt32(r.value)
       IN  /\ pid' = p
           /\ trace' = Append(trace, "strtol")
           /\ IF ~r.moved THEN Return(1)
              ELSE IF ~ValidPid(p) THEN Return(1)
              ELSE Goto("install_term")
    /\ UNCHANGED <<config, unit, capResult, ptrace_return, effective, permitted,
                   disp, oldsiga, status, tracee_exit_code, out>>
    /\ UNCHANGED <<nsig, handlerRuns, intrBlocked, exited_k, sigkilled, capFails>>

\* sigaction(sig, &siga, &old): siga.sa_handler is detach
InstallHandler(at, sig, next) ==
    /\ pc = at
    /\ oldsiga' = [oldsiga EXCEPT ![sig] = disp[sig]]
    /\ disp' = [disp EXCEPT ![sig] = "detach"]
    /\ trace' = Append(trace, "sigaction")
    /\ Goto(next)
    /\ UNCHANGED <<config, unit, pid, capResult, ptrace_return, effective, permitted,
                   status, tracee_exit_code, out>>
    /\ UNCHANGED <<nsig, handlerRuns, intrBlocked, exited_k, sigkilled, capFails>>

InstallTerm == InstallHandler("install_term", "SIGTERM", "install_int")

InstallInt == InstallHandler("install_int", "SIGINT", "attach")

\* AttachFailed testing for the wrong value
AttachFailed_wrong(r) == r = 1

\* ptrace_return == -1
AttachFailed(r) == r = -1

\* ptrace(PTRACE_SEIZE, pid, NULL, PTRACE_O_TRACEEXIT), or without
\* PTRACE_SEIZE ptrace(PTRACE_ATTACH, pid, NULL, NULL), which sends the
\* target a SIGSTOP; if (ptrace_return == -1) return 1;
\* The call fails unless pid names a running process nobody traces.
Attach ==
    /\ pc = "attach"
    /\ trace' = Append(trace, IF seize THEN "PTRACE_SEIZE" ELSE "PTRACE_ATTACH")
    /\ LET ok == tstate = "running" /\ ~otherTracer
           r == IF ok THEN 0 ELSE -1
           \* the target once the call returned
           tr == ok
           ts == IF ok /\ ~seize THEN "stopped" ELSE tstate
           pd == IF ok /\ ~seize THEN StopStatus(SIGSTOP) ELSE pending
       IN  /\ ptrace_return' = r
           /\ IF AttachFailed(r)
              THEN /\ pc' = "done"
                   /\ exitCode' = 1
                   /\ traced' = FALSE
                   /\ tstate' = (IF tr THEN Resume(ts) ELSE ts)
                   /\ pending' = -1
              ELSE /\ pc' = "waitpid"
                   /\ exitCode' = exitCode
                   /\ traced' = tr
                   /\ tstate' = ts
                   /\ pending' = pd
    /\ UNCHANGED <<otherTracer, eventmsg, eintr>>
    /\ UNCHANGED <<config, unit, pid, capResult, effective, permitted, disp, oldsiga,
                   status, tracee_exit_code, out>>
    /\ UNCHANGED <<nsig, handlerRuns, intrBlocked, exited_k, sigkilled, capFails>>

\* what the loop of wait_using_waitpid does with what waitpid returned
\* (returned_pid, st), the kernel having left the target in state ts,
\* traced or not (tr); if (!wait_using_waitpid(pid)) return 1;
WaitpidReturned(returned_pid, st, ts, tr) ==
    LET r == wait_using_waitpid(returned_pid, st, pid)
    IN  /\ status' = (IF returned_pid = -1 THEN status ELSE st)
        /\ IF r = "FALSE"
           THEN /\ pc' = "done"
                /\ exitCode' = 1
                /\ traced' = FALSE
                /\ tstate' = (IF tr THEN Resume(ts) ELSE ts)
           ELSE /\ pc' = (IF r = "TRUE" THEN "restore_term" ELSE "waitpid")
                /\ exitCode' = exitCode
                /\ traced' = tr
                /\ tstate' = ts
        /\ pending' = -1
        /\ eintr' = FALSE
        /\ UNCHANGED <<otherTracer, eventmsg>>

\* waitpid(pid, &status, 0) returns what is there to return: -1 when it was
\* interrupted (EINTR) or when pid is not the caller's to wait for (ECHILD),
\* or the queued status, reaping a dead target
WaitpidResult ==
    IF eintr THEN WaitpidReturned(-1, 0, tstate, traced)
    ELSE IF traced /\ pending # -1
    THEN WaitpidReturned(pid, pending,
                         IF tstate = "zombie" THEN "gone" ELSE tstate,
                         tstate # "zombie")
    ELSE WaitpidReturned(-1, 0, tstate, traced)

WaitpidReady == eintr \/ ~traced \/ pending # -1

\* returned_pid = waitpid(pid, &waitpid_return_status, 0): it returns at
\* once when something is there, and blocks otherwise
WaitpidCall ==
    /\ pc = "waitpid"
    /\ trace' = Append(trace, "waitpid")
    /\ IF WaitpidReady
       THEN WaitpidResult
       ELSE pc' = "blocked" /\ UNCHANGED <<status, exitCode, env>>
    /\ UNCHANGED <<config, unit, pid, capResult, ptrace_return, effective, permitted,
                   disp, oldsiga, tracee_exit_code, out>>
    /\ UNCHANGED <<nsig, handlerRuns, intrBlocked, exited_k, sigkilled, capFails>>

\* the blocked waitpid returns
WaitpidWake ==
    /\ pc = "blocked"
    /\ WaitpidReady
    /\ WaitpidResult
    /\ UNCHANGED <<config, unit, pid, capResult, ptrace_return, effective, permitted,
                   disp, oldsiga, tracee_exit_code, out>>
    /\ UNCHANGED hist

\* sigaction(sig, &old, NULL)
RestoreHandler(at, sig, old, next) ==
    /\ pc = at
    /\ disp' = [disp EXCEPT ![sig] = old]
    /\ trace' = Append(trace, "sigaction")
    /\ Goto(next)
    /\ UNCHANGED <<config, unit, pid, capResult, ptrace_return, effective, permitted,
                   oldsiga, status, tracee_exit_code, out>>
    /\ UNCHANGED <<nsig, handlerRuns, intrBlocked, exited_k, sigkilled, capFails>>

\* sigaction(SIGTERM, &oldsiga_term, NULL);
RestoreTerm ==
    RestoreHandler("restore_term", "SIGTERM", oldsiga["SIGTERM"], "restore_int")

\* RestoreInt handing sigaction the other saved disposition
RestoreInt_wrong ==
    RestoreHandler("restore_int", "SIGINT", oldsiga["SIGTERM"], "extract")

\* sigaction(SIGINT, &oldsiga_int, NULL);
RestoreInt ==
    RestoreHandler("restore_int", "SIGINT", oldsiga["SIGINT"], "extract")

\* if (tracee_exit_code == -1) return 1;
ExtractFailed(c) == c = -1

\* tracee_exit_code = get_tracee_exit_status(pid);
\* if (tracee_exit_code == -1) return 1;
Extract ==
    /\ pc = "extract"
    /\ trace' = Append(trace, "PTRACE_GETEVENTMSG")
    /\ LET c == get_tracee_exit_status(InPtraceStop, eventmsg)
       IN  /\ tracee_exit_code' = c
           /\ IF ExtractFailed(c) THEN Return(1) ELSE Goto("print")
    /\ UNCHANGED <<config, unit, pid, capResult, ptrace_return, effective, permitted,
                   disp, oldsiga, status, out>>
    /\ UNCHANGED <<nsig, handlerRuns, intrBlocked, exited_k, sigkilled, capFails>>

\* printf("Process %d exited with code %d\n", pid, tracee_exit_code);
PrintSuccess ==
    /\ pc = "print"
    /\ out' = Append(out, [pid |-> pid, code |-> tracee_exit_code])
    /\ trace' = Append(trace, "printf")
    /\ Goto("return0")
    /\ UNCHANGED <<config, unit, pid, capResult, ptrace_return, effective, permitted,
                   disp, oldsiga, status, tracee_exit_code>>
    /\ UNCHANGED <<nsig, handlerRuns, intrBlocked, exited_k, sigkilled, capFails>>

\* ReturnSuccess returning the failure code
ReturnSuccess_fail ==
    /\ pc = "return0"
    /\ Return(1)
    /\ UNCHANGED <<config, unit, pid, capResult, ptrace_return, effective, permitted,
                   disp, oldsiga, status, tracee_exit_code, out>>
    /\ UNCHANGED hist

\* return 0;
ReturnSuccess ==
    /\ pc = "return0"
    /\ Return(0)
    /\ UNCHANGED <<config, unit, pid, capResult, ptrace_return, effective, permitted,
                   disp, oldsiga, status, tracee_exit_code, out>>
    /\ UNCHANGED hist

(***************************************************************************)
(* Signals to the controller                                               *)
(***************************************************************************)
\* void detach(const int signal) { ptrace(PTRACE_DETACH, pid, 0, 0); }
\* PTRACE_DETACH fails (ESRCH) unless pid is a tracee in a ptrace-stop
detach ==
    /\ trace' = Append(trace, "PTRACE_DETACH")
    /\ handlerRuns' = handlerRuns + 1
    /\ IF InPtraceStop
       THEN /\ traced' = FALSE
            /\ tstate' = Resume(tstate)
            /\ pending' = -1
       ELSE UNCHANGED <<traced, tstate, pending>>
    /\ UNCHANGED <<otherTracer, eventmsg>>

\* SIGTERM or SIGINT is delivered to the controller.  Under the default
\* disposition it dies; under the handler, detach runs, and a waitpid that
\* was blocked fails with EINTR unless the handler was installed with
\* SA_RESTART, which makes the kernel restart it.  A waitpid that has a
\* status to return is not blocked: the signal is then taken after it.
\* main sets siga.sa_handler and nothing else of siga, so the flags the
\* handler is installed with are whatever the stack held: SA_RESTART or
\* not, and SA_RESETHAND (the disposition is the default again once the
\* handler was entered) or not.
Signal(sig) ==
    /\ Running
    /\ nsig < MaxSignals
    /\ ~(pc = "blocked" /\ traced /\ pending # -1)
    /\ nsig' = nsig + 1
    /\ IF disp[sig] = "SIG_IGN" THEN
            UNCHANGED <<pc, disp, env, trace, handlerRuns, intrBlocked>>
       ELSE IF disp[sig] = "SIG_DFL" THEN
            /\ pc' = "killed"
            /\ ReleaseTracee
            /\ UNCHANGED <<disp, trace, handlerRuns, intrBlocked>>
       ELSE /\ detach
            /\ disp' = (IF sa_resethand
                        THEN [disp EXCEPT ![sig] = "SIG_DFL"]
                        ELSE disp)
            /\ eintr' = (eintr \/ (pc = "blocked" /\ ~sa_restart))
            /\ intrBlocked' = (intrBlocked \/ pc = "blocked")
            /\ pc' = pc
    /\ UNCHANGED <<config, unit, pid, capResult, ptrace_return, effective, permitted,
                   oldsiga, status, tracee_exit_code, out, exitCode>>
    /\ UNCHANGED <<exited_k, sigkilled, capFails>>

SignalDelivered == \E sig \in TermSignals : Signal(sig)

(***************************************************************************)
(* The target                                                              *)
(***************************************************************************)
\* a signal is delivered to the traced target: it enters a
\* signal-delivery-stop, reported to the tracer
TargetStop ==
    /\ Running
    /\ traced
    /\ tstate = "running"
    /\ \E sig \in StopSignals :
         /\ tstate' = "stopped"
         /\ pending' = StopStatus(sig)
    /\ UNCHANGED <<traced, otherTracer, eventmsg, eintr>>
    /\ UNCHANGED <<ctl, hist>>

\* the target calls exit(k).  Traced with PTRACE_O_TRACEEXIT it stops in
\* PTRACE_EVENT_EXIT with its exit status as the event message; traced
\* without, the tracer is left its wait status; untraced, it is gone.
TargetExit ==
    /\ Running
    /\ tstate = "running"
    /\ \E k \in ExitCodes :
         /\ exited_k' = k
         /\ IF traced /\ seize THEN
                /\ tstate' = "exitstop"
                /\ eventmsg' = Long(ExitedStatus(k))
                /\ pending' = ExitEventStatus
            ELSE IF traced THEN
                /\ tstate' = "zombie"
                /\ eventmsg' = eventmsg
                /\ pending' = ExitedStatus(k)
            ELSE
                /\ tstate' = "gone"
                /\ UNCHANGED <<eventmsg, pending>>
    /\ UNCHANGED <<traced, otherTracer, eintr>>
    /\ UNCHANGED <<ctl, trace, nsig, handlerRuns, intrBlocked, sigkilled, capFails>>

\* somebody kills the traced target with SIGKILL: it dies whatever stop it
\* is in, and the tracer is left the wait status of a death by SIGKILL
TargetKilled ==
    /\ Running
    /\ traced
    /\ tstate \in {"running", "stopped", "exitstop"}
    /\ tstate' = "zombie"
    /\ pending' = SIGKILL
    /\ sigkilled' = TRUE
    /\ UNCHANGED <<traced, otherTracer, eventmsg, eintr>>
    /\ UNCHANGED <<ctl, trace, nsig, handlerRuns, intrBlocked, exited_k, capFails>>

Next ==
    \/ ArgcCheck
    \/ PrepareCapabilities
    \/ ParseArgument
    \/ InstallTerm
    \/ InstallInt
    \/ Attach
    \/ WaitpidCall
    \/ WaitpidWake
    \/ RestoreTerm
    \/ RestoreInt
    \/ Extract
    \/ PrintSuccess
    \/ ReturnSuccess
    \/ SignalDelivered
    \/ TargetStop
    \/ TargetExit
    \/ TargetKilled

Spec == Init /\ [][Next]_vars

(***************************************************************************)
(* The functions on their own: wait_using_waitpid and wait_using_waitid    *)
(* on any sequence of wait results, and the end of main on any event       *)
(* message, also the results and messages that the kernel of the first     *)
(* specification does not produce for this program.                        *)
(***************************************************************************)
\* the process id the wait functions are run for
TargetPid == 1

\* the process ids a wait result can report
ReportedPids == {TargetPid, TargetPid + 1, 0}

\* a wait result: the call failed, or it reports for process pid a stop by
\* signal val, the exit event, or the exit with code val
WaitEvents ==
    {[kind |-> "error", pid |-> -1, val |-> 0]}
    \cup {[kind |-> "stop", pid |-> q, val |-> g] :
             q \in ReportedPids, g \in StopSignals}
    \cup {[kind |-> "exit_event", pid |-> q, val |-> 0] : q \in ReportedPids}
    \cup {[kind |-> "exited", pid |-> q, val |-> 0] : q \in ReportedPids}

\* what waitpid(pid, &waitpid_return_status, 0) returns for a wait result
WaitpidOf(e) ==
    [returned_pid |-> e.pid,
     waitpid_return_status |->
        CASE e.kind = "stop" -> StopStatus(e.val)
          [] e.kind = "exit_event" -> ExitEventStatus
          [] e.kind = "exited" -> ExitedStatus(e.val)
          [] OTHER -> 0]

\* what waitid(P_PID, pid, &siginfo, WEXITED) returns and leaves in siginfo
\* for a wait result; on failure si_pid keeps the 0 it was given
WaitidOf(e) ==
    [ret |-> IF e.kind = "error" THEN -1 ELSE 0,
     si_pid |-> IF e.kind = "error" THEN 0 ELSE e.pid,
     si_code |-> IF e.kind = "exited" THEN CLD_EXITED ELSE CLD_TRAPPED,
     si_status |-> IF e.kind = "exit_event" THEN ExitEventCode ELSE e.val]

\* the event messages PTRACE_GETEVENTMSG can be made to store
Messages ==
    {Long(0), Long(ExitedStatus(42)), Long(SIGKILL), TwoTo32Plus1,
     <<0, 32768, 0, 0>>, <<65535, 65535, 0, 0>>, MinusOne}

\* main and the target outside the wait functions; a target that is gone
\* was killed in its exit stop
MainAt(at, ts, msg) ==
    /\ arg = [kind |-> "num", val |-> Long(TargetPid)]
    /\ seize = TRUE
    /\ pc = at
    /\ pid = TargetPid
    /\ capResult = "true"
    /\ ptrace_return = 0
    /\ effective = TRUE
    /\ permitted = TRUE
    /\ disp = [s \in TermSignals |-> "SIG_DFL"]
    /\ disp0 = disp
    /\ oldsiga = disp
    /\ sa_restart = FALSE
    /\ sa_resethand = FALSE
    /\ tstate = ts
    /\ traced = (ts = "exitstop")
    /\ otherTracer = FALSE
    /\ pending = -1
    /\ eventmsg = msg
    /\ eintr = FALSE
    /\ status = ExitEventStatus
    /\ tracee_exit_code = 0
    /\ out = <<>>
    /\ exitCode = -1
    /\ trace = <<>>
    /\ nsig = 0
    /\ handlerRuns = 0
    /\ intrBlocked = FALSE
    /\ exited_k = -1
    /\ sigkilled = (ts = "gone")
    /\ capFails = {}

\* either both wait functions start on a sequence of wait results, or main
\* is about to call get_tracee_exit_status with some message stored
InitUnit ==
    \/ /\ unitOf = "wait"
       /\ events \in UNION {[1..n -> WaitEvents] : n \in 0..MaxEvents}
       /\ wpid_run = [ret |-> "running", calls |-> 0]
       /\ wid_run = [ret |-> "running", calls |-> 0]
       /\ MainAt("unit", "exitstop", Long(0))
    \/ /\ unitOf = "extract"
       /\ UnitIdle
       /\ \E ts \in {"exitstop", "gone"}, msg \in Messages :
            MainAt("extract", ts, msg)

\* wait_using_waitpid makes its next call of waitpid
StepWaitpid ==
    /\ unitOf = "wait"
    /\ wpid_run.ret = "running"
    /\ wpid_run.calls < Len(events)
    /\ LET w == WaitpidOf(events[wpid_run.calls + 1])
           r == wait_using_waitpid(w.returned_pid, w.waitpid_return_status,
                                   pid)
       IN  wpid_run' = [ret |-> IF r = "loop" THEN "running" ELSE r,
                        calls |-> wpid_run.calls + 1]
    /\ UNCHANGED <<config, unitOf, events, wid_run, pc, pid, capResult,
                   ptrace_return, effective, permitted, disp, oldsiga,
                   status, tracee_exit_code, out, exitCode, env, hist>>

\* wait_using_waitid makes its next call of waitid
StepWaitid ==
    /\ unitOf = "wait"
    /\ wid_run.ret = "running"
    /\ wid_run.calls < Len(events)
    /\ LET w == WaitidOf(events[wid_run.calls + 1])
           r == wait_using_waitid(w.ret, w.si_pid, w.si_code, w.si_status,
                                  pid)
       IN  wid_run' = [ret |-> IF r = "loop" THEN "running" ELSE r,
                       calls |-> wid_run.calls + 1]
    /\ UNCHANGED <<config, unitOf, events, wpid_run, pc, pid, capResult,
                   ptrace_return, effective, permitted, disp, oldsiga,
                   status, tracee_exit_code, out, exitCode, env, hist>>

NextUnit ==
    \/ StepWaitpid
    \/ StepWaitid
    \/ Extract
    \/ PrintSuccess
    \/ ReturnSuccess

SpecUnit == InitUnit /\ [][NextUnit]_vars

(***************************************************************************)
(* Vocabulary of the properties                                            *)
(***************************************************************************)
\* the places of the trace where one of the calls in names was issued
Calls(names) == {i \in DOMAIN trace : trace[i] \in names}

CapCallNames == CapCalls \cup {"CAP_IS_SUPPORTED"}
AttachCalls == {"PTRACE_SEIZE", "PTRACE_ATTACH"}
PtraceCalls == AttachCalls \cup {"PTRACE_DETACH", "PTRACE_GETEVENTMSG"}

\* the calls of the main flow, without those of the signal handler
MainTrace == SelectSeq(trace, LAMBDA c : c # "PTRACE_DETACH")
LastCall == IF MainTrace = <<>> THEN "none" ELSE MainTrace[Len(MainTrace)]

\* the argument is a number that is zero or negative (as a long)
NonPositive == arg.kind = "num" /\ (arg.val = Long(0) \/ arg.val[4] >= 32768)

\* the argument is missing, not a number, or not a positive number
InvalidArgument == arg.kind \in {"missing", "text"} \/ NonPositive

\* the run was started with a usable id, got its privilege, attached, was
\* sent no signal, and the target, which nobody killed, called exit(k)
CleanRun ==
    /\ ~InvalidArgument
    /\ capResult = "true"
    /\ Calls(AttachCalls) # {}
    /\ ptrace_return = 0
    /\ nsig = 0
    /\ ~sigkilled
    /\ exited_k \in 0..255

(***************************************************************************)
(* C1.  A run with a positive id, the privilege, a successful attach and   *)
(* no signal, whose target calls exit(k), 0 <= k <= 255, writes exactly    *)
(* one success line, which shows k, and exits 0.                           *)
(***************************************************************************)
C1_ExitCodeReported ==
    (pc = "done" /\ CleanRun) =>
        /\ Len(out) = 1
        /\ out[1].code = exited_k
        /\ exitCode = 0

(***************************************************************************)
(* C2.  A SIGINT or SIGTERM delivered while the controller is blocked in   *)
(* waitpid makes the detach handler run, and the run then ends with exit   *)
(* code 1 and without a success line.                                      *)
(***************************************************************************)
C2_InterruptedRunFails ==
    intrBlocked =>
        /\ handlerRuns >= 1
        /\ out = <<>>
        /\ pc = "done" => exitCode = 1

C6_AttachFailure ==
    ptrace_return = -1 =>
        /\ pc = "done"
        /\ exitCode = 1
        /\ out = <<>>
        /\ Calls({"waitpid", "PTRACE_GETEVENTMSG", "printf"}) = {}

C6_Witness ==
    /\ ptrace_return = -1
    /\ Calls(AttachCalls) # {}
    /\ tstate = "gone"
    /\ pc = "done"

C8_NoExtractionAfterDetach ==
    /\ handlerRuns > 0 => out = <<>>
    /\ \A i \in Calls({"PTRACE_DETACH"}), j \in Calls({"PTRACE_GETEVENTMSG"}) :
         j < i

(***************************************************************************)
(* C9 as stated.  After the wait loop returned, on every path, the         *)
(* dispositions of SIGTERM and SIGINT are those from before the            *)
(* installation before the program does anything else, the return from     *)
(* main included.                                                          *)
(***************************************************************************)
C9_RestoredOnEveryPath ==
    (Calls({"waitpid"}) # {} /\ pc \in {"extract", "print", "return0", "done"})
        => disp = disp0

(***************************************************************************)
(* C9 as amended.  After the wait loop returned success, the dispositions  *)
(* of SIGTERM and SIGINT are those from before the installation before     *)
(* the exit status is queried and before anything is printed.  After the   *)
(* wait loop returned failure, main returns 1 without having restored      *)
(* them: its only sigaction calls are the two that installed the handler.  *)
(***************************************************************************)
C9_RestoredOnSuccess ==
    /\ (pc \in {"extract", "print", "return0"}
          \/ Calls({"PTRACE_GETEVENTMSG", "printf"}) # {}) => disp = disp0
    /\ (pc = "done" /\ LastCall = "waitpid") =>
         /\ exitCode = 1
         /\ Cardinality(Calls({"sigaction"})) = 2
         /\ \A s \in TermSignals : disp[s] \in {"detach", "SIG_DFL"}
         /\ handlerRuns = 0 => \A s \in TermSignals : disp[s] = "detach"

C9_Witness ==
    /\ pc = "extract"
    /\ disp = disp0
    /\ disp0["SIGTERM"] # disp0["SIGINT"]

(***************************************************************************)
(* C10.  The detach handler is armed only while the controller is          *)
(* attached: it is installed after the attach succeeded, and a signal      *)
(* delivered before the attach call never runs the handler.                *)
(***************************************************************************)
C10_ArmedOnlyWhileAttached ==
    /\ \A s \in TermSignals :
         disp[s] = "detach" => (Calls(AttachCalls) # {} /\ ptrace_return = 0)
    /\ \A i \in Calls({"PTRACE_DETACH"}) : \E j \in Calls(AttachCalls) : j < i

(***************************************************************************)
(* C11.  get_tracee_exit_status (the event-message query) is invoked at    *)
(* most once in a run, and only after the wait loop returned success on a  *)
(* wait result that is the target's exit event: never after a wait error,  *)
(* a wrong-process result or an attach failure.                            *)
(***************************************************************************)
C11_ExtractOnceAfterExitEvent ==
    /\ Cardinality(Calls({"PTRACE_GETEVENTMSG"})) <= 1
    /\ \A i \in Calls({"PTRACE_GETEVENTMSG"}) :
         /\ ptrace_return = 0
         /\ status = ExitEventStatus
         /\ \E j \in Calls({"waitpid"}) : j < i
         /\ \A j \in Calls({"waitpid"}) : j < i
    /\ (pc = "done" /\ LastCall \in {"waitpid"} \cup AttachCalls) =>
         Calls({"PTRACE_GETEVENTMSG"}) = {}

C11_Witness ==
    /\ Calls({"PTRACE_GETEVENTMSG"}) # {}
    /\ Cardinality(Calls({"waitpid"})) >= 1
    /\ status = ExitEventStatus

(***************************************************************************)
(* Vocabulary of the properties of the wait functions on their own         *)
(***************************************************************************)
\* the two runs
WaitRuns == {wpid_run, wid_run}

\* the wait result a run saw last
LastSeen(run) == events[run.calls]

\* the wait result is the target's stop by a signal, not its exit event
UnrelatedStop(e) == e.kind = "stop" /\ e.pid = pid

\* the wait result is the exit event of the target
TargetExitEvent(e) == e.kind = "exit_event" /\ e.pid = pid

\* the wait result reports another process than the target
WrongProcess(e) == e.kind # "error" /\ e.pid # pid

\* the number of unrelated stops events starts with
LeadingStops ==
    CHOOSE n \in 0..Len(events) :
        /\ \A i \in 1..n : UnrelatedStop(events[i])
        /\ n < Len(events) => ~UnrelatedStop(events[n + 1])

\* C12: a wait function has returned TRUE only if the wait result it saw
\* last is the exit event, and FALSE only if that result is an error of
\* the wait call or names a wrong process; after any other result it has
\* not returned and makes another wait call.
C12_ReturnsOnlyOnExitEventOrError ==
    unitOf = "wait" =>
      \A run \in WaitRuns :
        /\ run.ret = "TRUE" => LastSeen(run).kind = "exit_event"
        /\ run.ret = "FALSE" =>
              \/ LastSeen(run).kind = "error"
              \/ WrongProcess(LastSeen(run))
        /\ (/\ run.calls > 0
            /\ LastSeen(run).kind \notin {"exit_event", "error"}
            /\ ~WrongProcess(LastSeen(run))) => run.ret = "running"

C12_Witness ==
    /\ unitOf = "wait"
    /\ wpid_run = [ret |-> "TRUE", calls |-> 2]
    /\ wid_run = [ret |-> "TRUE", calls |-> 2]
    /\ events[1].kind = "exited"

\* C13: when the wait results are n unrelated stops of the target followed
\* by its exit event, a wait function has not returned after any of the n
\* stops, and returns TRUE at its call number n+1.
C13_DiscardsUnrelatedStops ==
    (/\ unitOf = "wait"
     /\ LeadingStops < Len(events)
     /\ TargetExitEvent(events[LeadingStops + 1])) =>
      \A run \in WaitRuns :
        /\ run.calls <= LeadingStops + 1
        /\ run.calls <= LeadingStops => run.ret = "running"
        /\ run.calls = LeadingStops + 1 => run.ret = "TRUE"

C13_Witness ==
    /\ unitOf = "wait"
    /\ Len(events) = MaxEvents
    /\ LeadingStops = MaxEvents - 1
    /\ TargetExitEvent(events[MaxEvents])
    /\ wpid_run = [ret |-> "TRUE", calls |-> MaxEvents]
    /\ wid_run = [ret |-> "TRUE", calls |-> MaxEvents]

\* C14: a wait function that saw a wait result reporting another process
\* than the target has returned FALSE.
C14_WrongProcessRejected ==
    unitOf = "wait" =>
      \A run \in WaitRuns :
        (run.calls > 0 /\ WrongProcess(LastSeen(run))) => run.ret = "FALSE"

\* C15: on the same wait results, once neither function makes a further
\* call, both made the same number of calls and returned the same.
C15_StrategiesEquivalent ==
    (/\ unitOf = "wait"
     /\ \A run \in WaitRuns :
          run.ret # "running" \/ run.calls = Len(events)) =>
      wpid_run = wid_run

\* C16: the global pid is written by the one strtol statement and by
\* nothing else, that statement comes before both installing sigaction
\* calls, and whenever the detach handler is installed or has run, pid is
\* the id parsed from the argument and is at least 1.
C16_TargetIdWrittenOnce ==
    unitOf = "main" =>
      /\ Cardinality(Calls({"strtol"})) <= 1
      /\ pid = (IF Calls({"strtol"}) = {} THEN 0
                ELSE ToInt32(strtol(arg).value))
      /\ \A i \in Calls({"sigaction"}) : \E j \in Calls({"strtol"}) : j < i
      /\ ((\E s \in TermSignals : disp[s] = "detach") \/ handlerRuns > 0) =>
            /\ arg.kind = "num"
            /\ pid = ToInt32(arg.val)
            /\ pid >= 1

C16_Witness ==
    /\ unitOf = "main"
    /\ handlerRuns > 0
    /\ Calls({"PTRACE_DETACH"}) # {}
    /\ arg.val = TwoTo32Plus1
    /\ pid = 1

\* the stages of prepare_capabilities, in the order of the source
CapStages ==
    <<"CAP_IS_SUPPORTED", "cap_get_proc", "cap_get_flag_effective",
      "cap_get_flag_permitted", "cap_set_flag", "cap_set_proc",
      "cap_get_flag_recheck">>

\* the calls of prepare_capabilities, without the releases
StageTrace == SelectSeq(trace, LAMBDA c : c \in CapCallNames \ {"cap_free"})

\* prepare_capabilities has returned
CapsReturned == unitOf = "main" /\ capResult # "notrun"

\* C17: once prepare_capabilities has returned, the calls it made are the
\* stages in order; it attempted to raise the capability only if the
\* capability is permitted; it returned TRUE without raising only if the
\* capability was effective; and if it raised the capability, it returned
\* TRUE exactly if the capability is effective.
C17_ReturnsEffectiveState ==
    CapsReturned =>
      /\ StageTrace = SubSeq(CapStages, 1, Len(StageTrace))
      /\ Calls({"cap_set_flag", "cap_set_proc"}) # {} => permitted
      /\ capResult = "true" => effective
      /\ Calls({"cap_get_flag_recheck"}) # {} =>
            (capResult = "true" <=> effective)

\* the stage calls that were made and failed
FailedStages == {f \in capFails \ {"cap_free"} : Calls({f}) # {}}

\* C18 as stated: prepare_capabilities, when one of its calls has failed,
\* still has gone through all its stages before it returned.
C18_FailureDoesNotAbort ==
    (CapsReturned /\ FailedStages # {}) => StageTrace = CapStages

\* C18, amended: the stage call that failed is the last stage call
\* prepare_capabilities made; after it the function only released the
\* capability structure if it had got one, and returned FALSE, and main
\* returned 1.  The structure is released at most once.
\* A failed release makes it return FALSE as well.
C18_FirstFailureAborts ==
    CapsReturned =>
      /\ \A f \in FailedStages :
           /\ StageTrace[Len(StageTrace)] = f
           /\ capResult = "false"
           /\ exitCode = 1
           /\ LastCall = (IF f = "cap_get_proc" THEN f ELSE "cap_free")
      /\ Cardinality(Calls({"cap_free"})) <= 1
      /\ ("cap_free" \in capFails /\ Calls({"cap_free"}) # {}) =>
            capResult = "false"

C18_Witness ==
    /\ CapsReturned
    /\ FailedStages = {"cap_get_flag_effective"}
    /\ Calls({"cap_get_flag_permitted"}) = {}
    /\ capResult = "false"

\* C19: while the controller is blocked in waitpid with nothing left to
\* report, the target it traces is not in a stop: a stop that was reported
\* to the wait loop has been resumed by then.
C19_StoppedTargetResumed ==
    (unitOf = "main" /\ pc = "blocked" /\ traced /\ pending = -1) =>
      tstate # "stopped"

\* the PTRACE_GETEVENTMSG of a run that started at the extraction had a
\* target in its exit stop to ask about
QuerySucceeded == ~sigkilled

\* C20: a run that has ended after the extraction step failed (exit code
\* 1, no success line) only if the query failed; after a successful query
\* it printed the success line with the int conversion of the message and
\* returned 0.
C20_OnlyQueryFailureFails ==
    (unitOf = "extract" /\ pc = "done") =>
      IF QuerySucceeded
      THEN /\ exitCode = 0
           /\ out = <<[pid |-> pid, code |-> ToInt32(eventmsg)]>>
      ELSE /\ exitCode = 1
           /\ out = <<>>

====
